---- MODULE Spec2Model ----
(***************************************************************************)
(* Model of MonitoringService (src/services/monitoring.rs): the select!    *)
(* loop of start, the liquidability sweep, the liquidation attempt and the *)
(* profitability computation.                                              *)
(*                                                                         *)
(* One state of the model is the service suspended at an .await: either at *)
(* the select! of start (both handlers idle) or inside one handler at an   *)
(* external call.  One action is the code that runs between two            *)
(* suspension points; the result of the external call that resumes it is   *)
(* drawn from a small set.  The producer (sender side of the channel) and  *)
(* the passing of time (the interval) are the environment.                 *)
(***************************************************************************)
EXTENDS Integers, Sequences, FiniteSets, TLC

(***************************************************************************)
(* Bounds of the model.                                                    *)
(***************************************************************************)
MaxMsgs == 2        \* messages the producer sends in one run
MaxTicks == 2       \* interval ticks that become due in one run (the first included)

(***************************************************************************)
(* Position keys and the distinguishable states (payloads) of a position.  *)
(***************************************************************************)
Keys == {1, 2}
Payloads == {1, 2}

(***************************************************************************)
(* BigDecimal: an integer value v and a scale s stand for v * 10^(-s).     *)
(* Multiplication multiplies the values and adds the scales, subtraction   *)
(* and comparison first bring both operands to the larger scale: all are   *)
(* exact.                                                                  *)
(***************************************************************************)
BD(v, s) == [v |-> v, s |-> s]

RECURSIVE Pow10(_)
Pow10(n) == IF n = 0 THEN 1 ELSE 10 * Pow10(n - 1)

MaxScale(a, b) == IF a.s >= b.s THEN a.s ELSE b.s

Rescale(a, s) == a.v * Pow10(s - a.s)

BDMul(a, b) == BD(a.v * b.v, a.s + b.s)

BDSub(a, b) ==
    LET s == MaxScale(a, b) IN BD(Rescale(a, s) - Rescale(b, s), s)

BDGeq(a, b) ==
    LET s == MaxScale(a, b) IN Rescale(a, s) >= Rescale(b, s)

(***************************************************************************)
(* Values the external collaborators may return, and the configuration.    *)
(***************************************************************************)
DebtAmounts == {BD(1000, 0)}
CollateralAmounts == {BD(2000, 0)}
LiquidationFactors == {BD(1, 1)}
ExecutionFees == {BD(9, 0), BD(10, 0), BD(11, 0), BD(900, 0)}
MinProfits == {BD(845, 0)}
LiquidationModes == {"Full", "Partial"}
TxHashes == {7, 26}

(***************************************************************************)
(* compute_profitability, the arithmetic of lines 148-171.                 *)
(***************************************************************************)
\* Mutant: the debt is sized by the factor in both modes.
DebtToLiquidateAnyMode(mode, debt, factor) == BDMul(debt, factor)

\* lines 148-153.
DebtToLiquidate(mode, debt, factor) ==
    IF mode = "Full" THEN BD(0, 0) ELSE BDMul(debt, factor)

MinCollateralToReceive(collateral, factor) == BDMul(collateral, factor)

\* Mutant: the share of the debt given by the factor itself.
SimulatedProfitOfFactor(debt, factor) == BDMul(debt, factor)

\* lines 156-157.
SimulatedProfit(debt, factor) == BDMul(debt, BDSub(BD(1, 0), factor))

Slippage == BD(5, 2)

SlippageFactor == BDSub(BD(1, 0), Slippage)

\* Mutant: the fees are subtracted before the slippage is applied.
ProfitFeesBeforeSlippage(debt, factor, fees) ==
    BDMul(BDSub(SimulatedProfit(debt, factor), fees), SlippageFactor)

\* lines 167-171.
Profit(debt, factor, fees) ==
    BDSub(BDMul(SimulatedProfit(debt, factor), SlippageFactor), fees)

(***************************************************************************)
(* Felt::to_string writes the field element in decimal; Felt::from_hex     *)
(* reads a string of digits in base 16.  A string is a sequence of digit   *)
(* values, most significant first.                                         *)
(***************************************************************************)
RECURSIVE to_string(_)
to_string(felt) ==
    IF felt < 10 THEN <<felt>> ELSE Append(to_string(felt \div 10), felt % 10)

RECURSIVE from_hex(_)
from_hex(str) ==
    IF Len(str) = 0 THEN 0
    ELSE 16 * from_hex(SubSeq(str, 1, Len(str) - 1)) + str[Len(str)]

(***************************************************************************)
(* PositionsMap: key -> payload, 0 where the book has no position for the  *)
(* key.                                                                    *)
(***************************************************************************)
EmptyBook == [k \in Keys |-> 0]

BookKeys(book) == {k \in Keys : book[k] # 0}

IsEmpty(book) == BookKeys(book) = {}

\* Mutant: an update for a key the book already holds is dropped.
InsertIfAbsent(book, key, position) ==
    IF book[key] = 0 THEN [book EXCEPT ![key] = position] ELSE book

Insert(book, key, position) == [book EXCEPT ![key] = position]

\* PositionsMap::from_storage: the book the service starts with.
InitBooks == {EmptyBook, Insert(EmptyBook, 1, 1)}

VARIABLES
    liquidation_mode,    \* config.liquidation_mode
    min_profit,          \* self.min_profit
    positions,           \* self.positions
    readers,             \* read guards of the RwLock of positions now held
    positions_receiver,  \* messages sent and not yet received
    sender_dropped,      \* the producer has closed the channel
    ticks_due,           \* ticks of update_interval that are ready
    ticks_total,         \* ticks that became due so far (bounds the run)
    sweep_pc,            \* where the timer-branch handler is suspended
    merge_pc,            \* where the channel-branch handler is suspended
    result,              \* "running", or what start returned
    todo,                \* keys the for loop of the sweep has yet to visit
    cur,                 \* key of the position the sweep is evaluating
    att,                 \* locals of the liquidation attempt in progress
    sent,                \* history: every message the producer sent
    merged,              \* history: every message inserted into the book
    view,                \* history: the book when the last sweep started
    waiting,             \* history: messages in the channel when it started
    saves,               \* history: number of Storage.save calls, last arguments
    calls,               \* history: external calls made by the last sweep
    last,                \* history: outcome of the last liquidation attempt
    pending_at_close     \* history: messages in the channel when it was closed

vars == <<liquidation_mode, min_profit, positions, readers, positions_receiver,
          sender_dropped, ticks_due, ticks_total, sweep_pc, merge_pc, result,
          todo, cur, att, sent, merged, view, waiting, saves, calls, last,
          pending_at_close>>

SweepErrors == {"ErrLiquidableAmount", "ErrGetLiquidationTxs", "ErrEstimateFees",
                "ErrExecuteTxs", "ErrWaitForTx"}

Errors == SweepErrors \cup {"ErrStorage", "ErrStopped"}

NoAttempt ==
    [debt |-> BD(0, 0), collateral |-> BD(0, 0), factor |-> BD(0, 0),
     debt_to_liquidate |-> BD(0, 0), min_collateral_to_receive |-> BD(0, 0),
     fees |-> BD(0, 0), profit |-> BD(0, 0), tx_hash_felt |-> 0,
     tx_hash |-> <<>>, waited |-> 0]

NoCalls ==
    [is_liquidable |-> 0, liquidable_amount |-> 0, fetch_liquidation_factors |-> 0,
     get_liquidation_txs |-> 0, estimate_fees_cost |-> 0, skipped |-> 0,
     execute_txs |-> 0, wait_for_tx |-> 0, liquidated |-> 0]

NoOutcome == [outcome |-> "none", profit |-> BD(0, 0)]

Init ==
    /\ liquidation_mode \in LiquidationModes
    /\ min_profit \in MinProfits
    /\ positions \in InitBooks
    /\ readers = 0
    /\ positions_receiver = <<>>
    /\ sender_dropped = FALSE
    /\ ticks_due = 1
    /\ ticks_total = 1
    /\ sweep_pc = "idle"
    /\ merge_pc = "idle"
    /\ result = "running"
    /\ todo = {}
    /\ cur = 0
    /\ att = NoAttempt
    /\ sent = <<>>
    /\ merged = <<>>
    /\ view = EmptyBook
    /\ waiting = 0
    /\ saves = [n |-> 0, snapshot |-> EmptyBook, block_number |-> 0,
                outcome |-> "none"]
    /\ calls = NoCalls
    /\ last = NoOutcome
    /\ pending_at_close = 0

(***************************************************************************)
(* The environment: the producer and the clock.  Once start has returned   *)
(* the service, with its receiver and its interval, is dropped.            *)
(***************************************************************************)
ProducerSend ==
    /\ result = "running"
    /\ ~sender_dropped
    /\ Len(sent) < MaxMsgs
    /\ \E k \in Keys, p \in Payloads :
         LET msg == [block_number |-> Len(sent) + 1, key |-> k, position |-> p]
         IN /\ positions_receiver' = Append(positions_receiver, msg)
            /\ sent' = Append(sent, msg)
    /\ UNCHANGED pending_at_close
    /\ UNCHANGED <<liquidation_mode, min_profit, positions, readers, sender_dropped,
                   ticks_due, ticks_total, sweep_pc, merge_pc, result, todo, cur,
                   att, merged, view, waiting, saves, calls, last>>

ProducerClose ==
    /\ result = "running"
    /\ ~sender_dropped
    /\ sender_dropped' = TRUE
    /\ pending_at_close' = Len(positions_receiver)
    /\ UNCHANGED <<liquidation_mode, min_profit, positions, readers,
                   positions_receiver, ticks_due, ticks_total, sweep_pc, merge_pc,
                   result, todo, cur, att, sent, merged, view, waiting, saves,
                   calls, last>>

\* A period of update_interval elapses; a tick that is not consumed at once
\* stays due (the interval bursts missed ticks).
IntervalElapses ==
    /\ result = "running"
    /\ ticks_total < MaxTicks
    /\ ticks_due' = ticks_due + 1
    /\ ticks_total' = ticks_total + 1
    /\ UNCHANGED pending_at_close
    /\ UNCHANGED <<liquidation_mode, min_profit, positions, readers,
                   positions_receiver, sender_dropped, sweep_pc, merge_pc, result,
                   todo, cur, att, sent, merged, view, waiting, saves, calls, last>>

(***************************************************************************)
(* start: loop { select! { tick => sweep, recv => merge and save } }       *)
(***************************************************************************)
\* The select! is polled only between handlers: the loop body awaits the
\* handler of the branch that won before it iterates.
\* Mutant: the select! is polled again while a handler is still suspended.
SelectWhileHandling == result = "running"

\* Mutant: the loop goes on after start has returned an error.
SelectAfterReturn ==
    /\ sweep_pc = "idle"
    /\ merge_pc = "idle"

SelectEnabled ==
    /\ result = "running"
    /\ sweep_pc = "idle"
    /\ merge_pc = "idle"

\* Mutant: the result of the handler is discarded, errors included.
TryIgnore(r) == "running"

\* Mutant: the result of the handler is returned, Ok included.
TryReturn(r) == r

\* `?` in the loop body: Ok goes on with the loop, an error is returned.
Try(r) == IF r = "Ok" THEN "running" ELSE r

\* Mutant: recv hands out the newest message first.
recv_Newest(channel) ==
    [msg |-> channel[Len(channel)],
     rest |-> SubSeq(channel, 1, Len(channel) - 1)]

\* UnboundedReceiver::recv on a channel that holds a message.
recv(channel) == [msg |-> Head(channel), rest |-> Tail(channel)]

\* Mutant: an empty book is reported as an error.
EmptyReturnErr == "ErrNoPositions"

\* line 93: the sweep of an empty book returns Ok(()).
EmptyReturn == "Ok"

\* line 106: the sweep returns Ok(()) after its last position.
SweepEndReturn == "Ok"

\* Mutant: the position taken stays among those the loop still has to take.
ForNext_Revisit(remaining, c, rd) ==
    IF remaining = {}
    THEN /\ sweep_pc' = "idle"
         /\ cur' = 0
         /\ todo' = {}
         /\ calls' = c
         /\ readers' = rd - 1
         /\ result' = Try(SweepEndReturn)
    ELSE \E k \in remaining :
         /\ sweep_pc' = "is_liquidable"
         /\ cur' = k
         /\ todo' = remaining
         /\ calls' = [c EXCEPT !.is_liquidable = @ + 1]
         /\ readers' = rd
         /\ result' = result

\* The for loop of the sweep takes its next position, or the sweep ends and
\* releases its read guard.  c: the calls counted so far, rd: read guards held.
ForNext(remaining, c, rd) ==
    IF remaining = {}
    THEN /\ sweep_pc' = "idle"
         /\ cur' = 0
         /\ todo' = {}
         /\ calls' = c
         /\ readers' = rd - 1
         /\ result' = Try(SweepEndReturn)
    ELSE \E k \in remaining :
         /\ sweep_pc' = "is_liquidable"
         /\ cur' = k
         /\ todo' = remaining \ {k}
         /\ calls' = [c EXCEPT !.is_liquidable = @ + 1]
         /\ readers' = rd
         /\ result' = result

\* Mutant: an error of one attempt is dropped and the sweep goes on.
SweepFailsIsolated(e) ==
    /\ att' = NoAttempt
    /\ ForNext(todo, calls, readers)

\* An error leaves the sweep through `?`: locals and the read guard are dropped.
SweepFails(e) ==
    /\ sweep_pc' = "idle"
    /\ cur' = 0
    /\ todo' = {}
    /\ att' = NoAttempt
    /\ calls' = calls
    /\ readers' = readers - 1
    /\ result' = Try(e)

\* The tick branch wins the select: monitor_positions_liquidability starts.
\* The pending recv is dropped, which leaves the channel as it is.
monitor_positions_liquidability ==
    /\ SelectEnabled
    /\ ticks_due > 0
    /\ ticks_due' = ticks_due - 1
    /\ view' = positions
    /\ waiting' = Len(positions_receiver)
    /\ att' = NoAttempt
    /\ last' = NoOutcome
    /\ IF IsEmpty(positions)
       THEN /\ result' = Try(EmptyReturn)
            /\ calls' = NoCalls
            /\ UNCHANGED <<sweep_pc, cur, todo, readers>>
       ELSE ForNext(BookKeys(positions), NoCalls, readers + 1)
    /\ UNCHANGED pending_at_close
    /\ UNCHANGED <<liquidation_mode, min_profit, positions, positions_receiver,
                   sender_dropped, ticks_total, merge_pc, sent, merged, saves>>

is_liquidable_Return ==
    /\ result = "running"
    /\ sweep_pc = "is_liquidable"
    /\ \E liquidable \in BOOLEAN :
         IF liquidable
         THEN /\ sweep_pc' = "liquidable_amount"
              /\ calls' = [calls EXCEPT !.liquidable_amount = @ + 1]
              /\ UNCHANGED <<cur, todo, readers, result>>
         ELSE ForNext(todo, calls, readers)
    /\ UNCHANGED pending_at_close
    /\ UNCHANGED <<liquidation_mode, min_profit, positions, positions_receiver,
                   sender_dropped, ticks_due, ticks_total, merge_pc, att, sent,
                   merged, view, waiting, saves, last>>

(***************************************************************************)
(* try_to_liquidate_position and compute_profitability, one action per     *)
(* external call that returns.                                             *)
(***************************************************************************)
liquidable_amount_Return ==
    /\ result = "running"
    /\ sweep_pc = "liquidable_amount"
    /\ \/ \E d \in DebtAmounts, c \in CollateralAmounts :
            /\ att' = [att EXCEPT !.debt = d, !.collateral = c]
            /\ sweep_pc' = "fetch_liquidation_factors"
            /\ calls' = [calls EXCEPT !.fetch_liquidation_factors = @ + 1]
            /\ UNCHANGED <<cur, todo, readers, result>>
       \/ SweepFails("ErrLiquidableAmount")
    /\ UNCHANGED pending_at_close
    /\ UNCHANGED <<liquidation_mode, min_profit, positions, positions_receiver,
                   sender_dropped, ticks_due, ticks_total, merge_pc, sent, merged,
                   view, waiting, saves, last>>

\* fetch_liquidation_factors returns no Result; the sizing of lines 148-155 is
\* computed and handed to get_liquidation_txs.
fetch_liquidation_factors_Return ==
    /\ result = "running"
    /\ sweep_pc = "fetch_liquidation_factors"
    /\ \E f \in LiquidationFactors :
         att' = [att EXCEPT
                   !.factor = f,
                   !.debt_to_liquidate =
                       DebtToLiquidate(liquidation_mode, att.debt, f),
                   !.min_collateral_to_receive =
                       MinCollateralToReceive(att.collateral, f)]
    /\ sweep_pc' = "get_liquidation_txs"
    /\ calls' = [calls EXCEPT !.get_liquidation_txs = @ + 1]
    /\ UNCHANGED pending_at_close
    /\ UNCHANGED <<liquidation_mode, min_profit, positions, readers,
                   positions_receiver, sender_dropped, ticks_due, ticks_total,
                   merge_pc, result, todo, cur, sent, merged, view, waiting, saves, last>>

get_liquidation_txs_Return ==
    /\ result = "running"
    /\ sweep_pc = "get_liquidation_txs"
    /\ \/ /\ sweep_pc' = "estimate_fees_cost"
          /\ calls' = [calls EXCEPT !.estimate_fees_cost = @ + 1]
          /\ UNCHANGED <<cur, todo, readers, result, att>>
       \/ SweepFails("ErrGetLiquidationTxs")
    /\ UNCHANGED pending_at_close
    /\ UNCHANGED <<liquidation_mode, min_profit, positions, positions_receiver,
                   sender_dropped, ticks_due, ticks_total, merge_pc, sent, merged,
                   view, waiting, saves, last>>

\* Mutant: an attempt that submits nothing returns a profit of zero.
ReturnedZeroOnSkip(profit, submitted) == IF submitted THEN profit ELSE BD(0, 0)

\* line 134: Ok(profit), after the submission or after the skip.
Returned(profit, submitted) == profit

\* Mutant: the threshold itself does not qualify.
WorthLiquidatingStrict(profit, threshold) == ~BDGeq(threshold, profit)

\* line 113: profit >= self.min_profit
WorthLiquidating(profit, threshold) == BDGeq(profit, threshold)

\* The fee estimate returns: compute_profitability returns the profit, and
\* try_to_liquidate_position either submits the transactions or skips.
estimate_fees_cost_Return ==
    /\ result = "running"
    /\ sweep_pc = "estimate_fees_cost"
    /\ \/ \E fees \in ExecutionFees :
            LET profit == Profit(att.debt, att.factor, fees) IN
            IF WorthLiquidating(profit, min_profit)
            THEN /\ att' = [att EXCEPT !.fees = fees, !.profit = profit]
                 /\ sweep_pc' = "execute_txs"
                 /\ calls' = [calls EXCEPT !.execute_txs = @ + 1]
                 /\ last' = [outcome |-> "submitting", profit |-> profit]
                 /\ UNCHANGED <<cur, todo, readers, result>>
            ELSE /\ att' = NoAttempt
                 /\ last' = [outcome |-> "skipped",
                             profit |-> Returned(profit, FALSE)]
                 /\ ForNext(todo, [calls EXCEPT !.skipped = @ + 1], readers)
       \/ /\ SweepFails("ErrEstimateFees")
          /\ UNCHANGED last
    /\ UNCHANGED pending_at_close
    /\ UNCHANGED <<liquidation_mode, min_profit, positions, positions_receiver,
                   sender_dropped, ticks_due, ticks_total, merge_pc, sent, merged,
                   view, waiting, saves>>

\* Mutant: the attempt is reported as liquidated as soon as the submission
\* returned, with no confirmation wait.
execute_txs_Return_NoWait ==
    /\ result = "running"
    /\ sweep_pc = "execute_txs"
    /\ \/ \E h \in TxHashes :
            /\ att' = NoAttempt
            /\ last' = [outcome |-> "liquidated",
                        profit |-> Returned(att.profit, TRUE)]
            /\ ForNext(todo, [calls EXCEPT !.liquidated = @ + 1], readers)
       \/ /\ SweepFails("ErrExecuteTxs")
          /\ UNCHANGED last
    /\ UNCHANGED pending_at_close
    /\ UNCHANGED <<liquidation_mode, min_profit, positions, positions_receiver,
                   sender_dropped, ticks_due, ticks_total, merge_pc, sent, merged,
                   view, waiting, saves>>

\* execute_txs returns the transaction hash; wait_for_tx_to_be_accepted parses
\* its string form and waits for that transaction.
execute_txs_Return ==
    /\ result = "running"
    /\ sweep_pc = "execute_txs"
    /\ \/ \E h \in TxHashes :
            /\ att' = [att EXCEPT !.tx_hash_felt = h,
                                  !.tx_hash = to_string(h),
                                  !.waited = from_hex(to_string(h))]
            /\ sweep_pc' = "wait_for_tx"
            /\ calls' = [calls EXCEPT !.wait_for_tx = @ + 1]
            /\ UNCHANGED <<cur, todo, readers, result>>
       \/ SweepFails("ErrExecuteTxs")
    /\ UNCHANGED pending_at_close
    /\ UNCHANGED <<liquidation_mode, min_profit, positions, positions_receiver,
                   sender_dropped, ticks_due, ticks_total, merge_pc, sent, merged,
                   view, waiting, saves, last>>

wait_for_tx_Return ==
    /\ result = "running"
    /\ sweep_pc = "wait_for_tx"
    /\ \/ /\ att' = NoAttempt
          /\ last' = [outcome |-> "liquidated",
                      profit |-> Returned(att.profit, TRUE)]
          /\ ForNext(todo, [calls EXCEPT !.liquidated = @ + 1], readers)
       \/ /\ SweepFails("ErrWaitForTx")
          /\ UNCHANGED last
    /\ UNCHANGED pending_at_close
    /\ UNCHANGED <<liquidation_mode, min_profit, positions, positions_receiver,
                   sender_dropped, ticks_due, ticks_total, merge_pc, sent, merged,
                   view, waiting, saves>>

(***************************************************************************)
(* The channel branch.                                                     *)
(***************************************************************************)
\* The recv branch wins the select with a message, and write().await gets the
\* write guard: no other guard of the lock is held.
\* Mutant: Storage.save is handed the merged entry alone.
save_Delta(calls_so_far, book, msg) ==
    [n |-> calls_so_far.n + 1,
     snapshot |-> Insert(EmptyBook, msg.key, msg.position),
     block_number |-> msg.block_number,
     outcome |-> "pending"]

\* line 76: Storage.save is called with a clone of the whole book and the
\* block number of the message.
save(calls_so_far, book, msg) ==
    [n |-> calls_so_far.n + 1,
     snapshot |-> book,
     block_number |-> msg.block_number,
     outcome |-> "pending"]

\* Mutant: the merge neither waits for the handler in progress nor for the
\* write guard.
MergeUnsynchronised ==
    /\ result = "running"
    /\ merge_pc = "idle"
    /\ Len(positions_receiver) > 0

CanMerge ==
    /\ SelectEnabled
    /\ Len(positions_receiver) > 0
    /\ readers = 0

\* recv yields Some: the position is inserted under the write guard, then the
\* book is cloned under a read guard and handed to Storage.save with the
\* block number of the message.  The read guard lives until the save returns.
recv_Some ==
    /\ CanMerge
    /\ LET r == recv(positions_receiver)
           book == Insert(positions, r.msg.key, r.msg.position)
       IN /\ positions_receiver' = r.rest
          /\ positions' = book
          /\ merged' = Append(merged, r.msg)
          /\ saves' = save(saves, book, r.msg)
    /\ readers' = readers + 1
    /\ merge_pc' = "save"
    /\ UNCHANGED pending_at_close
    /\ UNCHANGED <<liquidation_mode, min_profit, sender_dropped, ticks_due,
                   ticks_total, sweep_pc, result, todo, cur, att, sent, view, waiting,
                   calls, last>>

\* Mutant: the read guard taken for the clone outlives the call of save.
storage_save_Return_KeepsGuard ==
    /\ result = "running"
    /\ merge_pc = "save"
    /\ merge_pc' = "idle"
    /\ \E r \in {"Ok", "ErrStorage"} :
         /\ saves' = [saves EXCEPT !.outcome = r]
         /\ result' = Try(r)
    /\ UNCHANGED pending_at_close
    /\ UNCHANGED <<liquidation_mode, min_profit, positions, positions_receiver,
                   sender_dropped, ticks_due, ticks_total, sweep_pc, todo, cur,
                   att, sent, merged, view, waiting, calls, last, readers>>

storage_save_Return ==
    /\ result = "running"
    /\ merge_pc = "save"
    /\ merge_pc' = "idle"
    /\ readers' = readers - 1
    /\ \E r \in {"Ok", "ErrStorage"} :
         /\ saves' = [saves EXCEPT !.outcome = r]
         /\ result' = Try(r)
    /\ UNCHANGED pending_at_close
    /\ UNCHANGED <<liquidation_mode, min_profit, positions, positions_receiver,
                   sender_dropped, ticks_due, ticks_total, sweep_pc, todo, cur,
                   att, sent, merged, view, waiting, calls, last>>

\* Mutant: recv yields None as soon as every sender is dropped, whatever the
\* channel still holds.
recv_None_Eager ==
    /\ SelectEnabled
    /\ sender_dropped
    /\ result' = "ErrStopped"
    /\ UNCHANGED pending_at_close
    /\ UNCHANGED <<liquidation_mode, min_profit, positions, readers,
                   positions_receiver, sender_dropped, ticks_due, ticks_total,
                   sweep_pc, merge_pc, todo, cur, att, sent, merged, view, waiting, saves,
                   calls, last>>

\* recv yields None: every sender is dropped and the channel is empty.
recv_None ==
    /\ SelectEnabled
    /\ Len(positions_receiver) = 0
    /\ sender_dropped
    /\ result' = "ErrStopped"
    /\ UNCHANGED pending_at_close
    /\ UNCHANGED <<liquidation_mode, min_profit, positions, readers,
                   positions_receiver, sender_dropped, ticks_due, ticks_total,
                   sweep_pc, merge_pc, todo, cur, att, sent, merged, view, waiting, saves,
                   calls, last>>

Next ==
    \/ ProducerSend
    \/ ProducerClose
    \/ IntervalElapses
    \/ monitor_positions_liquidability
    \/ is_liquidable_Return
    \/ liquidable_amount_Return
    \/ fetch_liquidation_factors_Return
    \/ get_liquidation_txs_Return
    \/ estimate_fees_cost_Return
    \/ execute_txs_Return
    \/ wait_for_tx_Return
    \/ recv_Some
    \/ storage_save_Return
    \/ recv_None

Spec == Init /\ [][Next]_vars

\* The external call in progress returns.  At most one call is in progress, so
\* at most one of these actions is enabled.
CallReturns ==
    \/ is_liquidable_Return
    \/ liquidable_amount_Return
    \/ fetch_liquidation_factors_Return
    \/ get_liquidation_txs_Return
    \/ estimate_fees_cost_Return
    \/ execute_txs_Return
    \/ wait_for_tx_Return
    \/ storage_save_Return

\* Every external call in progress eventually returns, and select!, which polls
\* its ready branches in random order, does not pass over a branch that is
\* ready again and again.  The producer and the clock are under no obligation.
Fairness ==
    /\ WF_vars(CallReturns)
    /\ SF_vars(monitor_positions_liquidability)
    /\ SF_vars(recv_Some)

\* start is called on a service built from an empty storage.
FairInit ==
    /\ Init
    /\ liquidation_mode = "Partial"
    /\ positions = EmptyBook

FairSpec == FairInit /\ [][Next]_vars /\ Fairness

TypeOK ==
    /\ liquidation_mode \in LiquidationModes
    /\ min_profit \in MinProfits
    /\ positions \in [Keys -> Payloads \cup {0}]
    /\ readers \in 0..2
    /\ sender_dropped \in BOOLEAN
    /\ ticks_due \in 0..MaxTicks
    /\ sweep_pc \in {"idle", "is_liquidable", "liquidable_amount",
                     "fetch_liquidation_factors", "get_liquidation_txs",
                     "estimate_fees_cost", "execute_txs", "wait_for_tx"}
    /\ merge_pc \in {"idle", "save"}
    /\ result \in {"running", "Ok"} \cup Errors
    /\ todo \subseteq Keys
    /\ cur \in Keys \cup {0}
    /\ pending_at_close \in 0..MaxMsgs

(***************************************************************************)
(* try_to_liquidate_position as a function of what its collaborators       *)
(* return: a second specification, in which the configuration and the      *)
(* returned amounts, factor and fees are drawn from wider sets at the      *)
(* start, every call returns without error, and the two actions apply      *)
(* compute_profitability and then the threshold gate to them.              *)
(***************************************************************************)
ProfitDebtAmounts == {BD(-1000, 0), BD(0, 0), BD(1, 0), BD(1000, 0)}
ProfitCollateralAmounts == {BD(0, 0), BD(2000, 0)}
ProfitLiquidationFactors == {BD(0, 0), BD(1, 1), BD(5, 1), BD(1, 0)}
ProfitExecutionFees == {BD(0, 0), BD(10, 0), BD(11, 0)}
ProfitMinProfits == {BD(500, 0), BD(845, 0), BD(900, 0)}

ProfitInit ==
    /\ liquidation_mode \in LiquidationModes
    /\ min_profit \in ProfitMinProfits
    /\ \E d \in ProfitDebtAmounts, c \in ProfitCollateralAmounts,
          f \in ProfitLiquidationFactors, fees \in ProfitExecutionFees :
          att = [NoAttempt EXCEPT !.debt = d, !.collateral = c, !.factor = f,
                                  !.fees = fees]
    /\ positions = Insert(EmptyBook, 1, 1)
    /\ readers = 0
    /\ positions_receiver = <<>>
    /\ sender_dropped = FALSE
    /\ ticks_due = 0
    /\ ticks_total = 1
    /\ sweep_pc = "idle"
    /\ merge_pc = "idle"
    /\ result = "running"
    /\ todo = {}
    /\ cur = 1
    /\ sent = <<>>
    /\ merged = <<>>
    /\ view = positions
    /\ waiting = 0
    /\ saves = [n |-> 0, snapshot |-> EmptyBook, block_number |-> 0,
                outcome |-> "none"]
    /\ calls = NoCalls
    /\ last = NoOutcome
    /\ pending_at_close = 0

\* lines 139-174 with every call returning Ok.
compute_profitability ==
    /\ last.outcome = "none"
    /\ att' = [att EXCEPT
                 !.debt_to_liquidate =
                     DebtToLiquidate(liquidation_mode, att.debt, att.factor),
                 !.min_collateral_to_receive =
                     MinCollateralToReceive(att.collateral, att.factor),
                 !.profit = Profit(att.debt, att.factor, att.fees)]
    /\ calls' = [calls EXCEPT !.liquidable_amount = @ + 1,
                              !.fetch_liquidation_factors = @ + 1,
                              !.get_liquidation_txs = @ + 1,
                              !.estimate_fees_cost = @ + 1]
    /\ last' = [outcome |-> "computed", profit |-> BD(0, 0)]
    /\ UNCHANGED pending_at_close
    /\ UNCHANGED <<liquidation_mode, min_profit, positions, readers,
                   positions_receiver, sender_dropped, ticks_due, ticks_total,
                   sweep_pc, merge_pc, result, todo, cur, sent, merged, view,
                   waiting, saves>>

\* lines 113-134 with every call returning Ok.
try_to_liquidate_position ==
    /\ last.outcome = "computed"
    /\ IF WorthLiquidating(att.profit, min_profit)
       THEN /\ calls' = [calls EXCEPT !.execute_txs = @ + 1,
                                      !.wait_for_tx = @ + 1,
                                      !.liquidated = @ + 1]
            /\ last' = [outcome |-> "liquidated",
                        profit |-> Returned(att.profit, TRUE)]
       ELSE /\ calls' = [calls EXCEPT !.skipped = @ + 1]
            /\ last' = [outcome |-> "skipped",
                        profit |-> Returned(att.profit, FALSE)]
    /\ UNCHANGED pending_at_close
    /\ UNCHANGED <<liquidation_mode, min_profit, positions, readers,
                   positions_receiver, sender_dropped, ticks_due, ticks_total,
                   sweep_pc, merge_pc, result, todo, cur, att, sent, merged, view,
                   waiting, saves>>

ProfitNext == compute_profitability \/ try_to_liquidate_position

ProfitSpec == ProfitInit /\ [][ProfitNext]_vars

(***************************************************************************)
(* Properties.                                                             *)
(***************************************************************************)
HandlerInProgress(pc) == pc # "idle"

\* The index in log of the last message for key k, 0 if there is none.
LastIndexOf(log, k) ==
    LET I == {i \in 1..Len(log) : log[i].key = k}
    IN IF I = {} THEN 0 ELSE CHOOSE i \in I : \A j \in I : j <= i

\* C1: once a message is merged, the book maps every key merged so far to the
\* payload of the last merged message with that key, and the last call of
\* Storage.save carried exactly this book and the block number of the last
\* merged message.
C1_LastWriteWinsAndSaved ==
    Len(merged) > 0 =>
        /\ \A k \in Keys :
             LastIndexOf(merged, k) # 0 =>
                 positions[k] = merged[LastIndexOf(merged, k)].position
        /\ saves.n > 0
        /\ saves.snapshot = positions
        /\ saves.block_number = merged[Len(merged)].block_number

\* A key was updated twice with different payloads and the handler is done.
C1_Witness ==
    /\ result = "running"
    /\ merge_pc = "idle"
    /\ Len(merged) = 2
    /\ merged[1].key = merged[2].key
    /\ merged[1].position # merged[2].position

\* C2: the two handlers are never in progress together, and a tick or a message
\* is taken from its source only while no handler is in progress.
C2_OneHandlerAtATime ==
    /\ [](~(HandlerInProgress(sweep_pc) /\ HandlerInProgress(merge_pc)))
    /\ [][(ticks_due' < ticks_due \/ Len(merged') > Len(merged))
            => (~HandlerInProgress(sweep_pc) /\ ~HandlerInProgress(merge_pc))]_vars

\* A sweep is suspended on an external call while a tick and a message are
\* both ready.
C2_Witness ==
    /\ HandlerInProgress(sweep_pc)
    /\ ticks_due > 0
    /\ Len(positions_receiver) > 0

\* C3: from the start of a sweep to its end the book is the book the sweep
\* started with and no message is merged.
C3_BookFrozenDuringSweep ==
    /\ [](HandlerInProgress(sweep_pc) =>
            (positions = view /\ {cur} \cup todo \subseteq BookKeys(view)))
    /\ [][HandlerInProgress(sweep_pc) =>
            (positions' = positions /\ merged' = merged)]_vars

\* A message arrived during a sweep that runs on a book merged earlier.
C3_Witness ==
    /\ HandlerInProgress(sweep_pc)
    /\ Len(merged) > 0
    /\ Len(positions_receiver) > waiting

\* C4: the messages merged so far, followed by those still in the channel, are
\* the messages the producer sent, in the order it sent them.
C4_MergedInOrderOnce == merged \o positions_receiver = sent

\* The tick branch won while a message was waiting; that message and a later
\* one were merged afterwards.
C4_Witness ==
    /\ waiting > 0
    /\ Len(merged) = 2
    /\ merged[1] # merged[2]
    /\ view = EmptyBook

\* What the service itself changes: everything but the producer and the clock.
serviceVars ==
    <<positions, readers, positions_receiver, ticks_due, sweep_pc, merge_pc,
      result, todo, cur, att, merged, view, waiting, saves, calls, last>>

NoHandlerInProgress ==
    ~HandlerInProgress(sweep_pc) /\ ~HandlerInProgress(merge_pc)

\* C5: start returns the "stopped unexpectedly" error only on a closed and empty
\* channel; there, a step of the loop that is not the tick branch returns it;
\* after it no tick is taken, no message merged, no save and no call made.
C5_ClosedChannelIsFatal ==
    /\ [](result = "ErrStopped" =>
            (sender_dropped /\ Len(positions_receiver) = 0 /\ NoHandlerInProgress))
    /\ [][(/\ result = "running"
           /\ NoHandlerInProgress
           /\ sender_dropped
           /\ Len(positions_receiver) = 0
           /\ ticks_due' = ticks_due
           /\ ticks_total' = ticks_total)
            => result' = "ErrStopped"]_vars
    /\ [][result = "ErrStopped" => UNCHANGED serviceVars]_vars

\* start has returned the error although a tick was due, after a merge.
C5_Witness ==
    /\ result = "ErrStopped"
    /\ ticks_due > 0
    /\ Len(merged) > 0

FalliblePcs ==
    {"liquidable_amount", "get_liquidation_txs", "estimate_fees_cost",
     "execute_txs", "wait_for_tx"}

ErrorOf(pc) ==
    CASE pc = "liquidable_amount" -> "ErrLiquidableAmount"
      [] pc = "get_liquidation_txs" -> "ErrGetLiquidationTxs"
      [] pc = "estimate_fees_cost" -> "ErrEstimateFees"
      [] pc = "execute_txs" -> "ErrExecuteTxs"
      [] pc = "wait_for_tx" -> "ErrWaitForTx"

\* The step is one of the sweep: its position, its calls or the result change.
SweepStepTaken ==
    sweep_pc' # sweep_pc \/ calls' # calls \/ result' # result

\* The step is the one the external call awaited at sweep_pc takes when it
\* returns without error.
CallSucceeded ==
    CASE sweep_pc = "liquidable_amount" ->
           calls'.fetch_liquidation_factors = calls.fetch_liquidation_factors + 1
      [] sweep_pc = "get_liquidation_txs" ->
           calls'.estimate_fees_cost = calls.estimate_fees_cost + 1
      [] sweep_pc = "estimate_fees_cost" ->
           \/ calls'.execute_txs = calls.execute_txs + 1
           \/ calls'.skipped = calls.skipped + 1
      [] sweep_pc = "execute_txs" ->
           calls'.wait_for_tx = calls.wait_for_tx + 1
      [] sweep_pc = "wait_for_tx" ->
           calls'.liquidated = calls.liquidated + 1

\* C6: a fallible call of the sweep that does not succeed ends the sweep in the
\* same step, with no further position evaluated, and start returns the error of
\* that call; after it no tick is taken, no message merged and no call made.
C6_SweepErrorIsFatal ==
    /\ [](result \in SweepErrors => (NoHandlerInProgress /\ readers = 0))
    /\ [][(sweep_pc \in FalliblePcs /\ SweepStepTaken /\ ~CallSucceeded)
            => (/\ result' = ErrorOf(sweep_pc)
                /\ sweep_pc' = "idle"
                /\ calls' = calls)]_vars
    /\ [][(result \in SweepErrors) => UNCHANGED serviceVars]_vars

\* A sweep ended by an error before it reached every position of its book,
\* with a tick and a message still waiting.
C6_Witness ==
    /\ result \in SweepErrors
    /\ calls.is_liquidable < Cardinality(BookKeys(view))
    /\ ticks_due > 0
    /\ Len(positions_receiver) > 0

\* C7: once Storage.save has failed, start has returned the storage error, save
\* was called once for each merged message and no more, and after it no tick is
\* taken, no message merged and no call made.
C7_StorageErrorIsFatal ==
    /\ [](saves.outcome = "ErrStorage" =>
            (/\ result = "ErrStorage"
             /\ saves.n = Len(merged)
             /\ NoHandlerInProgress))
    /\ [](result = "ErrStorage" => saves.outcome = "ErrStorage")
    /\ [][result = "ErrStorage" => UNCHANGED serviceVars]_vars

\* The save of the second message failed while a tick was due.
C7_Witness ==
    /\ result = "ErrStorage"
    /\ saves.n = 2
    /\ ticks_due > 0

\* C8: start never returns Ok; its result changes once, from running to the
\* error of a sweep in progress, to the storage error of a save in progress, or
\* to the stop error on a closed and empty channel.
C8_OnlyErrorsEndTheLoop ==
    /\ [](result # "Ok")
    /\ [][result' # result =>
            /\ result = "running"
            /\ \/ result' \in SweepErrors /\ HandlerInProgress(sweep_pc)
               \/ result' = "ErrStorage" /\ merge_pc = "save"
               \/ /\ result' = "ErrStopped"
                  /\ sender_dropped
                  /\ Len(positions_receiver) = 0
                  /\ NoHandlerInProgress]_vars

\* After a full sweep and a merge the loop waits at the select!, with nothing
\* ready and the channel open.
C8_Witness ==
    /\ result = "running"
    /\ NoHandlerInProgress
    /\ calls.is_liquidable > 0
    /\ Len(merged) > 0
    /\ ~sender_dropped
    /\ ticks_due = 0
    /\ Len(positions_receiver) = 0

\* C9: the tick branch taken on an empty book ends in the same step: no call is
\* made or in progress, no guard is kept, nothing is saved, and the loop runs on.
C9_EmptySweep ==
    [][(ticks_due' < ticks_due /\ \A k \in Keys : positions[k] = 0)
         => (/\ result' = "running"
             /\ sweep_pc' = "idle"
             /\ calls' = NoCalls
             /\ att' = NoAttempt
             /\ readers' = readers
             /\ saves' = saves
             /\ positions' = positions)]_vars

\* The first tick swept the empty book, and a message was merged afterwards.
C9_Witness ==
    /\ ticks_total = 1
    /\ ticks_due = 0
    /\ view = EmptyBook
    /\ calls = NoCalls
    /\ Len(merged) = 1
    /\ result = "running"

\* a >= b, as integers brought to a common scale.
AtLeast(a, b) == a.v * Pow10(b.s) >= b.v * Pow10(a.s)

\* C10: when compute_profitability has returned, the transactions are submitted
\* if the profit is at least min_profit, and otherwise the attempt ends with no
\* submission and no confirmation wait; a submission or a wait in progress is
\* one of a profit of at least min_profit.
C10_ThresholdGate ==
    /\ [](sweep_pc \in {"execute_txs", "wait_for_tx"} =>
            AtLeast(att.profit, min_profit))
    /\ [][(sweep_pc = "estimate_fees_cost" /\ CallSucceeded) =>
            IF AtLeast(last'.profit, min_profit)
            THEN /\ sweep_pc' = "execute_txs"
                 /\ calls'.execute_txs = calls.execute_txs + 1
                 /\ calls'.skipped = calls.skipped
                 /\ att'.profit = last'.profit
            ELSE /\ sweep_pc' \notin {"execute_txs", "wait_for_tx"}
                 /\ calls'.execute_txs = calls.execute_txs
                 /\ calls'.wait_for_tx = calls.wait_for_tx
                 /\ calls'.skipped = calls.skipped + 1]_vars

\* After a skipped attempt, a profit equal to the threshold is being submitted.
C10_Witness ==
    /\ sweep_pc = "execute_txs"
    /\ calls.skipped = 1
    /\ att.profit.v * Pow10(min_profit.s) = min_profit.v * Pow10(att.profit.s)

\* x as an integer number of 10^(-scale).
AtScale(x, scale) == x.v * Pow10(scale - x.s)

\* a and b are the same number, whatever their scales.
BDEq(a, b) ==
    LET s == IF a.s >= b.s THEN a.s ELSE b.s
    IN  AtScale(a, s) = AtScale(b, s)

\* The attempt of ProfitSpec has returned.
AttemptReturned == last.outcome \in {"liquidated", "skipped"}

ScenarioA ==
    /\ liquidation_mode = "Partial"
    /\ att.debt = BD(1000, 0)
    /\ att.collateral = BD(2000, 0)
    /\ att.factor = BD(1, 1)
    /\ att.fees = BD(10, 0)

\* C11: the value try_to_liquidate_position returns is the profit
\* compute_profitability computed, after a submission and after a skip alike;
\* with the inputs of Scenario A and a threshold of 900 it is 845 and nothing
\* was submitted.
C11_ReturnsComputedProfit ==
    AttemptReturned =>
        /\ last.profit = att.profit
        /\ (ScenarioA /\ min_profit = BD(900, 0)) =>
               /\ BDEq(last.profit, BD(845, 0))
               /\ last.outcome = "skipped"
               /\ calls.execute_txs = 0

\* Scenario B: the attempt has returned without a submission.
C11_Witness ==
    /\ ScenarioA
    /\ min_profit = BD(900, 0)
    /\ last.outcome = "skipped"
    /\ BDEq(last.profit, BD(845, 0))

\* compute_profitability of ProfitSpec has returned.
ProfitComputed == last.outcome # "none"

\* C12: the profit is exactly debt x (1 - factor) x 0.95 - fees, computed here in
\* thousandths with integers, of either sign; with the inputs of Scenario A it
\* is 845, and with a threshold of 500 the submission is made exactly once.
C12_ProfitFormula ==
    /\ ProfitComputed =>
           /\ AtScale(att.profit, 3) =
                  AtScale(att.debt, 0) * (10 - AtScale(att.factor, 1)) * 95
                  - AtScale(att.fees, 3)
           /\ 100 * (AtScale(att.profit, 3) + AtScale(att.fees, 3)) =
                  95 * AtScale(SimulatedProfit(att.debt, att.factor), 3)
           /\ ScenarioA => BDEq(att.profit, BD(845, 0))
    /\ (AttemptReturned /\ ScenarioA /\ min_profit = BD(500, 0)) =>
           /\ last.outcome = "liquidated"
           /\ calls.execute_txs = 1

\* Scenario A: the attempt has returned after one submission.
C12_Witness ==
    /\ ScenarioA
    /\ min_profit = BD(500, 0)
    /\ last.outcome = "liquidated"
    /\ calls.execute_txs = 1
    /\ BDEq(att.profit, BD(845, 0))

\* C14: a run that differs only in the fee estimate returns a profit that
\* differs by exactly the negated difference of the fees, and the sizing the
\* transactions are built from is a function of the mode, the amounts and the
\* factor alone.
C14_LinearInFees ==
    ProfitComputed =>
        /\ \A fees \in ProfitExecutionFees :
               AtScale(Profit(att.debt, att.factor, fees), 3)
               - AtScale(att.profit, 3)
                   = 0 - (AtScale(fees, 3) - AtScale(att.fees, 3))
        /\ att.debt_to_liquidate =
               DebtToLiquidate(liquidation_mode, att.debt, att.factor)
        /\ att.min_collateral_to_receive =
               MinCollateralToReceive(att.collateral, att.factor)

\* A profit was computed with a fee estimate of 11 where another run has 10.
C14_Witness ==
    /\ ProfitComputed
    /\ att.debt = BD(1000, 0)
    /\ att.factor = BD(1, 1)
    /\ att.fees = BD(11, 0)
    /\ BDEq(att.profit, BD(844, 0))
    /\ BDEq(Profit(att.debt, att.factor, BD(10, 0)), BD(845, 0))

\* C15: in Full mode the debt to liquidate is 0 for every input, in Partial mode
\* it is debt x factor; in both modes the minimum collateral is
\* collateral x factor and the profit is the one of the other mode.
C15_ModeOnlySizesDebt ==
    ProfitComputed =>
        /\ liquidation_mode = "Full" => att.debt_to_liquidate.v = 0
        /\ liquidation_mode = "Partial" =>
               AtScale(att.debt_to_liquidate, 1) =
                   AtScale(att.debt, 0) * AtScale(att.factor, 1)
        /\ AtScale(att.min_collateral_to_receive, 1) =
               AtScale(att.collateral, 0) * AtScale(att.factor, 1)
        /\ AtScale(att.profit, 3) =
               AtScale(att.debt, 0) * (10 - AtScale(att.factor, 1)) * 95
               - AtScale(att.fees, 3)

\* Full mode with a debt and a factor whose product is not 0.
C15_Witness ==
    /\ ProfitComputed
    /\ liquidation_mode = "Full"
    /\ att.debt = BD(1000, 0)
    /\ att.collateral = BD(2000, 0)
    /\ att.factor = BD(1, 1)
    /\ att.debt_to_liquidate.v = 0
    /\ BDEq(att.min_collateral_to_receive, BD(200, 0))

\* C13: the number of calls of Storage.save is the number of messages merged,
\* whatever the outcome of the calls; a call is made only by the step that
\* merges a message, which no sweep and no attempt is part of; the snapshot of
\* the last call is the whole book, and its block number the one of the last
\* merged message.
C13_OneSavePerMerge ==
    /\ [](saves.n = Len(merged))
    /\ [](saves.n > 0 =>
            /\ saves.snapshot = positions
            /\ saves.block_number = merged[Len(merged)].block_number)
    /\ [][(saves'.n # saves.n) =>
            /\ saves'.n = saves.n + 1
            /\ merged' = Append(merged, positions_receiver[1])
            /\ ~HandlerInProgress(sweep_pc)
            /\ sweep_pc' = sweep_pc
            /\ calls' = calls]_vars
    /\ [][(HandlerInProgress(sweep_pc) \/ sweep_pc' # sweep_pc) =>
            saves' = saves]_vars

\* The second merge, into a book of two keys, after a sweep that liquidated a
\* position: Storage.save was called twice.
C13_Witness ==
    /\ saves.n = 2
    /\ Cardinality(BookKeys(positions)) = 2
    /\ saves.snapshot = positions
    /\ merge_pc = "save"
    /\ calls.liquidated > 0

\* The submissions of the sweep whose call has not returned successfully: the
\* one in progress, or the one that failed.
SubmissionsNotReturned ==
    IF sweep_pc = "execute_txs" \/ result = "ErrExecuteTxs" THEN 1 ELSE 0

\* C16: in an attempt the transactions are built before the fees are estimated,
\* the fees before the threshold check and the submission, the submission
\* before the confirmation wait and the wait before the liquidated outcome.  A
\* wait is started only by the step in which a submission returns without
\* error, one wait for one submission; the outcome is liquidated only by the
\* step in which the wait returns without error; a failed submission has no
\* wait.
C16_AttemptStepsInOrder ==
    /\ [](/\ calls.liquidated <= calls.wait_for_tx
          /\ calls.wait_for_tx <= calls.execute_txs
          /\ calls.execute_txs <= calls.estimate_fees_cost
          /\ calls.estimate_fees_cost <= calls.get_liquidation_txs
          /\ calls.wait_for_tx = calls.execute_txs - SubmissionsNotReturned
          /\ (sweep_pc = "wait_for_tx") =>
                 calls.liquidated = calls.wait_for_tx - 1)
    /\ [][(calls'.estimate_fees_cost > calls.estimate_fees_cost) =>
            (sweep_pc = "get_liquidation_txs"
             /\ sweep_pc' = "estimate_fees_cost")]_vars
    /\ [][(calls'.execute_txs > calls.execute_txs) =>
            /\ sweep_pc = "estimate_fees_cost"
            /\ sweep_pc' = "execute_txs"
            /\ calls'.execute_txs = calls.execute_txs + 1
            /\ AtLeast(att'.profit, min_profit)]_vars
    /\ [][(calls'.wait_for_tx > calls.wait_for_tx) =>
            /\ sweep_pc = "execute_txs"
            /\ sweep_pc' = "wait_for_tx"
            /\ result' = "running"
            /\ calls'.wait_for_tx = calls.wait_for_tx + 1
            /\ calls'.execute_txs = calls.execute_txs]_vars
    /\ [][(sweep_pc = "wait_for_tx") =>
            (calls'.wait_for_tx = calls.wait_for_tx
             /\ calls'.execute_txs = calls.execute_txs)]_vars
    /\ [][(calls'.liquidated > calls.liquidated
           \/ (last'.outcome = "liquidated" /\ last' # last)) =>
            /\ sweep_pc = "wait_for_tx"
            /\ result = "running"
            /\ calls'.liquidated = calls.liquidated + 1
            /\ last'.outcome = "liquidated"]_vars
    /\ [][(result' = "ErrExecuteTxs") =>
            (calls'.wait_for_tx = calls.wait_for_tx /\ sweep_pc' = "idle")]_vars

\* In one sweep a position was liquidated and the submission for the next one
\* failed.
C16_Witness ==
    /\ result = "ErrExecuteTxs"
    /\ calls.execute_txs = 2
    /\ calls.wait_for_tx = 1
    /\ calls.liquidated = 1

\* C17: the transaction the confirmation wait is given is the transaction the
\* submission returned: parsing with from_hex the string to_string made of the
\* hash yields the hash.
C17_WaitsForSubmittedTx ==
    (sweep_pc = "wait_for_tx") =>
        /\ att.tx_hash = to_string(att.tx_hash_felt)
        /\ att.waited = att.tx_hash_felt

\* The attempts of the sweep that have begun and not ended.
AttemptsInProgress == calls.liquidable_amount - calls.skipped - calls.liquidated

\* C18: in a sweep the positions evaluated so far are those of the book the
\* loop has no longer to take, each evaluated once, and at most one attempt is
\* in progress; a position the predicate reports as not liquidable causes no
\* call, no attempt and no error; the submissions of a sweep are at most the
\* positions it found liquidable.
C18_EachPositionOnce ==
    /\ [](/\ calls.is_liquidable <= Cardinality(BookKeys(view))
          /\ calls.execute_txs <= calls.liquidable_amount
          /\ calls.liquidable_amount <= calls.is_liquidable
          /\ AttemptsInProgress \in {0, 1})
    /\ [](HandlerInProgress(sweep_pc) =>
            /\ cur \in BookKeys(view) \ todo
            /\ calls.is_liquidable = Cardinality(BookKeys(view) \ todo))
    /\ [][(sweep_pc = "is_liquidable"
           /\ calls'.liquidable_amount = calls.liquidable_amount) =>
            /\ calls'.fetch_liquidation_factors = calls.fetch_liquidation_factors
            /\ calls'.get_liquidation_txs = calls.get_liquidation_txs
            /\ calls'.estimate_fees_cost = calls.estimate_fees_cost
            /\ calls'.execute_txs = calls.execute_txs
            /\ calls'.wait_for_tx = calls.wait_for_tx
            /\ calls'.skipped = calls.skipped
            /\ calls'.liquidated = calls.liquidated
            /\ att' = att
            /\ last' = last
            /\ result' = result]_vars

\* The sweep of a book of two positions has ended: one was not liquidable, the
\* other was submitted.
C18_Witness ==
    /\ sweep_pc = "idle"
    /\ calls.is_liquidable = 2
    /\ calls.liquidable_amount = 1
    /\ calls.execute_txs = 1
    /\ calls.liquidated = 1
    /\ result = "running"

\* C20: start returns the "stopped unexpectedly" error only when every message
\* the producer sent has been merged and Storage.save has returned Ok for it;
\* while a closed channel holds a message no step returns that error, and a step
\* takes a message out of a closed channel only by merging it.
C20_ClosedChannelIsDrained ==
    /\ [](result = "ErrStopped" =>
            /\ merged = sent
            /\ saves.n = Len(sent)
            /\ saves.outcome \in {"none", "Ok"}
            /\ (Len(sent) > 0) =>
                   /\ saves.outcome = "Ok"
                   /\ saves.block_number = sent[Len(sent)].block_number)
    /\ [][(sender_dropped /\ Len(positions_receiver) > 0) =>
            /\ result' # "ErrStopped"
            /\ \/ positions_receiver' = positions_receiver
               \/ /\ positions_receiver' = Tail(positions_receiver)
                  /\ merged' = Append(merged, Head(positions_receiver))
                  /\ saves'.n = saves.n + 1]_vars

\* The channel was closed with two messages in it, and start returned the
\* error after both were merged and saved.
C20_Witness ==
    /\ result = "ErrStopped"
    /\ pending_at_close = 2
    /\ Len(merged) = 2
    /\ saves.n = 2

\* start has returned.
Returned_start == result # "running"

\* The i-th message the producer sent is in the book and Storage.save has
\* returned Ok for the book that holds it.
Persisted(i) ==
    /\ Len(merged) >= i
    /\ merged[i] = sent[i]
    /\ \/ saves.n > i
       \/ saves.n = i /\ saves.outcome = "Ok"

\* The sweeps started so far: the ticks that were consumed.
SweepsStarted == ticks_total - ticks_due

\* Every message the producer sent so far is persisted.
AllPersisted == \A i \in 1..Len(sent) : Persisted(i)

====
